---- MODULE Spec2Model ----
(***************************************************************************)
(* Model of chacha-cli: the ChaChaEncryptor / ChaChaDecryptor iterators of *)
(* src/chacha.rs and the write_iter_bytes sink and the three commands of   *)
(* src/main.rs.                                                            *)
(*                                                                         *)
(* The ChaCha20-Poly1305 primitive is an external crate.  It is modelled   *)
(* by what it does: a stream cipher (keystream XOR, length preserving)     *)
(* followed by a TagSize-byte tag computed over (key, nonce, ciphertext);  *)
(* decryption verifies the tag before it releases any plaintext.  The tag  *)
(* function is collision-free on the inputs this model builds, which is    *)
(* the usual idealisation of a MAC.                                        *)
(***************************************************************************)
EXTENDS Integers, Sequences, FiniteSets, TLC

\* ---------------------------------------------------------------- bounds
MaxLen == 1
MaxRuns == 2
MaxPulls == 5
MaxFailOn == 2

\* ------------------------------------------------------ program constants
NonceSize == 12
TagSize == 16
KeySize == 32
BUFFER_SIZE == 1048576

\* ----------------------------------------------------------- byte helpers
Take(s, n) == SubSeq(s, 1, n)
Drop(s, n) == SubSeq(s, n + 1, Len(s))

RECURSIVE Flatten(_)
Flatten(ss) == IF ss = <<>> THEN <<>> ELSE Head(ss) \o Flatten(Tail(ss))

RECURSIVE XorBits(_, _, _)
XorBits(a, b, k) ==
    IF k = 0 THEN 0
    ELSE (((a % 2) + (b % 2)) % 2) + 2 * XorBits(a \div 2, b \div 2, k - 1)

Xor8(a, b) == XorBits(a, b, 8)

RECURSIVE WeightedSum(_, _)
WeightedSum(s, i) ==
    IF i = 0 THEN 0 ELSE ((i * s[i]) + WeightedSum(s, i - 1)) % 256

Digest(s) == WeightedSum(s, Len(s))

RECURSIVE ClassSum(_, _, _)
ClassSum(s, c, i) ==
    IF i = 0 THEN 0
    ELSE ((IF ((i - 1) % (TagSize - 3)) + 1 = c THEN s[i] ELSE 0)
          + ClassSum(s, c, i - 1)) % 256

\* ------------------------------------------------------ the AEAD primitive
Keystream(key, nonce, i) ==
    ((key[((i - 1) % KeySize) + 1] * 7)
       + (nonce[((i - 1) % NonceSize) + 1] * 13) + (i * 31) + 1) % 256

ApplyKeystream(key, nonce, buf) ==
    [i \in 1..Len(buf) |-> Xor8(buf[i], Keystream(key, nonce, i))]

Tag(key, nonce, ct) ==
    [j \in 1..TagSize |->
        IF j = 1 THEN Digest(key)
        ELSE IF j = 2 THEN Digest(nonce)
        ELSE IF j = 3 THEN Len(ct) % 256
        ELSE ClassSum(ct, j - 3, Len(ct))]

\* encrypt_in_place(&nonce, &[], &mut buffer): buffer becomes ciphertext || tag
encrypt_in_place(cipher, nonce, buffer) ==
    LET ct == ApplyKeystream(cipher.key, nonce, buffer)
    IN  [ok |-> TRUE, buffer |-> ct \o Tag(cipher.key, nonce, ct)]

\* decrypt_in_place(&nonce, &[], &mut buffer): Err when the buffer is shorter
\* than a tag or the tag does not verify; the buffer is released as plaintext
\* only after the tag verified.
decrypt_in_place(cipher, nonce, buffer) ==
    IF Len(buffer) < TagSize THEN [ok |-> FALSE, buffer |-> buffer]
    ELSE LET ct  == Take(buffer, Len(buffer) - TagSize)
             tag == Drop(buffer, Len(buffer) - TagSize)
         IN  IF Tag(cipher.key, nonce, ct) = tag
             THEN [ok |-> TRUE, buffer |-> ApplyKeystream(cipher.key, nonce, ct)]
             ELSE [ok |-> FALSE, buffer |-> buffer]

\* ------------------------------------------------------------ byte sources
\* A Box<dyn Read>: the bytes still unread, and whether the underlying reader
\* reports an I/O error (instead of end-of-file) once they are used up.
Stream(data, bad) == [data |-> data, bad |-> bad]

read_exact(s, n) ==
    IF Len(s.data) >= n
    THEN [ok |-> TRUE, buf |-> Take(s.data, n),
          stream |-> [s EXCEPT !.data = Drop(s.data, n)]]
    ELSE [ok |-> FALSE, buf |-> <<>>, stream |-> [s EXCEPT !.data = <<>>]]

read_to_end(s) ==
    IF s.bad
    THEN [ok |-> FALSE, buf |-> s.data, stream |-> [s EXCEPT !.data = <<>>]]
    ELSE [ok |-> TRUE, buf |-> s.data, stream |-> [s EXCEPT !.data = <<>>]]

\* ----------------------------------------------------------------- Option
Some(v) == [some |-> TRUE, v |-> v]
None == [some |-> FALSE, v |-> <<>>]

NoPanic == ""
Returned(self, ret) == [self |-> self, ret |-> ret, panic |-> NoPanic]
Panicked(self, msg) == [self |-> self, ret |-> None, panic |-> msg]

\* ------------------------------------------------------------- Encryptor
ChaChaEncryptor_new(cipher, input_stream, nonce) ==
    [kind |-> "ChaChaEncryptor", cipher |-> cipher, nonce |-> nonce,
     input_stream |-> input_stream, phase |-> "Nonce"]

\* variant: the Ciphertext phase does not move on to Complete
ChaChaEncryptor_next_noComplete(self) ==
    CASE self.phase = "Nonce" ->
            Returned([self EXCEPT !.phase = "Ciphertext"], Some(self.nonce))
      [] self.phase = "Ciphertext" ->
            LET r == read_to_end(self.input_stream)
                s1 == [self EXCEPT !.input_stream = r.stream]
            IN  IF ~r.ok THEN Panicked(s1, "failed to read plaintext")
                ELSE Returned(s1, Some(encrypt_in_place(self.cipher, self.nonce,
                                                        r.buf).buffer))
      [] self.phase = "Complete" -> Returned(self, None)

\* variant: a pull in phase Complete rewinds the phase
ChaChaEncryptor_next_restart(self) ==
    CASE self.phase = "Nonce" ->
            Returned([self EXCEPT !.phase = "Ciphertext"], Some(self.nonce))
      [] self.phase = "Ciphertext" ->
            LET r == read_to_end(self.input_stream)
                s1 == [self EXCEPT !.input_stream = r.stream]
            IN  IF ~r.ok THEN Panicked(s1, "failed to read plaintext")
                ELSE Returned([s1 EXCEPT !.phase = "Complete"],
                              Some(encrypt_in_place(self.cipher, self.nonce,
                                                    r.buf).buffer))
      [] self.phase = "Complete" ->
            Returned([self EXCEPT !.phase = "Nonce"], None)

\* variant: the nonce chunk is never emitted, the first pull encrypts
ChaChaEncryptor_next_noNonce(self) ==
    CASE self.phase \in {"Nonce", "Ciphertext"} ->
            LET r == read_to_end(self.input_stream)
                s1 == [self EXCEPT !.input_stream = r.stream]
            IN  IF ~r.ok THEN Panicked(s1, "failed to read plaintext")
                ELSE Returned([s1 EXCEPT !.phase = "Complete"],
                              Some(encrypt_in_place(self.cipher, self.nonce,
                                                    r.buf).buffer))
      [] self.phase = "Complete" -> Returned(self, None)

\* variant: the Nonce phase moves straight on to Complete
ChaChaEncryptor_next_skip(self) ==
    CASE self.phase = "Nonce" ->
            Returned([self EXCEPT !.phase = "Complete"], Some(self.nonce))
      [] self.phase = "Ciphertext" ->
            LET r == read_to_end(self.input_stream)
                s1 == [self EXCEPT !.input_stream = r.stream]
            IN  IF ~r.ok THEN Panicked(s1, "failed to read plaintext")
                ELSE Returned([s1 EXCEPT !.phase = "Complete"],
                              Some(encrypt_in_place(self.cipher, self.nonce,
                                                    r.buf).buffer))
      [] self.phase = "Complete" -> Returned(self, None)

\* variant: emitting the nonce steps the stored nonce, counter fashion
ChaChaEncryptor_next_bumpNonce(self) ==
    CASE self.phase = "Nonce" ->
            Returned([self EXCEPT !.phase = "Ciphertext",
                                  !.nonce = [i \in 1..NonceSize |->
                                                (self.nonce[i] + 1) % 256]],
                     Some(self.nonce))
      [] self.phase = "Ciphertext" ->
            LET r == read_to_end(self.input_stream)
                s1 == [self EXCEPT !.input_stream = r.stream]
            IN  IF ~r.ok THEN Panicked(s1, "failed to read plaintext")
                ELSE Returned([s1 EXCEPT !.phase = "Complete"],
                              Some(encrypt_in_place(self.cipher, self.nonce,
                                                    r.buf).buffer))
      [] self.phase = "Complete" -> Returned(self, None)

\* variant: the Nonce phase already drains the source
ChaChaEncryptor_next_eagerRead(self) ==
    CASE self.phase = "Nonce" ->
            Returned([self EXCEPT !.phase = "Ciphertext",
                                  !.input_stream =
                                      read_to_end(self.input_stream).stream],
                     Some(self.nonce))
      [] self.phase = "Ciphertext" ->
            LET r == read_to_end(self.input_stream)
                s1 == [self EXCEPT !.input_stream = r.stream]
            IN  IF ~r.ok THEN Panicked(s1, "failed to read plaintext")
                ELSE Returned([s1 EXCEPT !.phase = "Complete"],
                              Some(encrypt_in_place(self.cipher, self.nonce,
                                                    r.buf).buffer))
      [] self.phase = "Complete" -> Returned(self, None)

ChaChaEncryptor_next(self) ==
    CASE self.phase = "Nonce" ->
            Returned([self EXCEPT !.phase = "Ciphertext"], Some(self.nonce))
      [] self.phase = "Ciphertext" ->
            LET r == read_to_end(self.input_stream)
                s1 == [self EXCEPT !.input_stream = r.stream]
            IN  IF ~r.ok THEN Panicked(s1, "failed to read plaintext")
                ELSE LET e == encrypt_in_place(self.cipher, self.nonce, r.buf)
                     IN  IF ~e.ok THEN Panicked(s1, "failed to encrypt buffer")
                         ELSE Returned([s1 EXCEPT !.phase = "Complete"],
                                       Some(e.buffer))
      [] self.phase = "Complete" -> Returned(self, None)

\* ------------------------------------------------------------- Decryptor
ChaChaDecryptor_new(cipher, input_stream) ==
    [kind |-> "ChaChaDecryptor", cipher |-> cipher,
     input_stream |-> input_stream, phase |-> "Plaintext"]

\* variant: the buffer is handed on as it was read, still encrypted
ChaChaDecryptor_next_rawBuffer(self) ==
    CASE self.phase = "Plaintext" ->
            LET n == read_exact(self.input_stream, NonceSize)
                s1 == [self EXCEPT !.input_stream = n.stream]
            IN  IF ~n.ok
                THEN Panicked(s1, "failed to read nonce of size 12 bytes")
                ELSE LET r == read_to_end(n.stream)
                         s2 == [self EXCEPT !.input_stream = r.stream]
                     IN  IF ~r.ok THEN Panicked(s2, "failed to read cyphertext")
                         ELSE LET d == decrypt_in_place(self.cipher, n.buf, r.buf)
                              IN  IF ~d.ok
                                  THEN Panicked(s2, "failed to decrypt buffer")
                                  ELSE Returned([s2 EXCEPT !.phase = "Complete"],
                                                Some(r.buf))
      [] self.phase = "Complete" -> Returned(self, None)

\* variant: the Plaintext phase does not move on to Complete
ChaChaDecryptor_next_noComplete(self) ==
    CASE self.phase = "Plaintext" ->
            LET n == read_exact(self.input_stream, NonceSize)
                s1 == [self EXCEPT !.input_stream = n.stream]
            IN  IF ~n.ok
                THEN Panicked(s1, "failed to read nonce of size 12 bytes")
                ELSE LET r == read_to_end(n.stream)
                         s2 == [self EXCEPT !.input_stream = r.stream]
                     IN  IF ~r.ok THEN Panicked(s2, "failed to read cyphertext")
                         ELSE LET d == decrypt_in_place(self.cipher, n.buf, r.buf)
                              IN  IF ~d.ok
                                  THEN Panicked(s2, "failed to decrypt buffer")
                                  ELSE Returned(s2,
                                                Some(d.buffer))
      [] self.phase = "Complete" -> Returned(self, None)

\* variant: the result of the tag check is dropped and the buffer is emitted
ChaChaDecryptor_next_ignoreAuth(self) ==
    CASE self.phase = "Plaintext" ->
            LET n == read_exact(self.input_stream, NonceSize)
                s1 == [self EXCEPT !.input_stream = n.stream]
            IN  IF ~n.ok
                THEN Panicked(s1, "failed to read nonce of size 12 bytes")
                ELSE LET r == read_to_end(n.stream)
                         s2 == [self EXCEPT !.input_stream = r.stream]
                     IN  IF ~r.ok THEN Panicked(s2, "failed to read cyphertext")
                         ELSE LET d == decrypt_in_place(self.cipher, n.buf, r.buf)
                              IN  IF ~d.ok
                                  THEN Returned([s2 EXCEPT !.phase = "Complete"], Some(d.buffer))
                                  ELSE Returned([s2 EXCEPT !.phase = "Complete"],
                                                Some(d.buffer))
      [] self.phase = "Complete" -> Returned(self, None)

\* variant: a short nonce read ends the sequence quietly
ChaChaDecryptor_next_silentShort(self) ==
    CASE self.phase = "Plaintext" ->
            LET n == read_exact(self.input_stream, NonceSize)
                s1 == [self EXCEPT !.input_stream = n.stream]
            IN  IF ~n.ok
                THEN Returned([s1 EXCEPT !.phase = "Complete"], None)
                ELSE LET r == read_to_end(n.stream)
                         s2 == [self EXCEPT !.input_stream = r.stream]
                     IN  IF ~r.ok THEN Panicked(s2, "failed to read cyphertext")
                         ELSE LET d == decrypt_in_place(self.cipher, n.buf, r.buf)
                              IN  IF ~d.ok
                                  THEN Panicked(s2, "failed to decrypt buffer")
                                  ELSE Returned([s2 EXCEPT !.phase = "Complete"],
                                                Some(d.buffer))
      [] self.phase = "Complete" -> Returned(self, None)

\* variant: a buffer too short to hold a tag gets a message of its own
ChaChaDecryptor_next_shortTagMsg(self) ==
    CASE self.phase = "Plaintext" ->
            LET n == read_exact(self.input_stream, NonceSize)
                s1 == [self EXCEPT !.input_stream = n.stream]
            IN  IF ~n.ok
                THEN Panicked(s1, "failed to read nonce of size 12 bytes")
                ELSE LET r == read_to_end(n.stream)
                         s2 == [self EXCEPT !.input_stream = r.stream]
                     IN  IF ~r.ok THEN Panicked(s2, "failed to read cyphertext")
                         ELSE IF Len(r.buf) < TagSize
                         THEN Panicked(s2, "cyphertext too short")
                         ELSE LET d == decrypt_in_place(self.cipher, n.buf, r.buf)
                              IN  IF ~d.ok
                                  THEN Panicked(s2, "failed to decrypt buffer")
                                  ELSE Returned([s2 EXCEPT !.phase = "Complete"],
                                                Some(d.buffer))
      [] self.phase = "Complete" -> Returned(self, None)

\* variant: a failed tag check ends the sequence quietly
ChaChaDecryptor_next_silentAuthFail(self) ==
    CASE self.phase = "Plaintext" ->
            LET n == read_exact(self.input_stream, NonceSize)
                s1 == [self EXCEPT !.input_stream = n.stream]
            IN  IF ~n.ok
                THEN Panicked(s1, "failed to read nonce of size 12 bytes")
                ELSE LET r == read_to_end(n.stream)
                         s2 == [self EXCEPT !.input_stream = r.stream]
                     IN  IF ~r.ok THEN Panicked(s2, "failed to read cyphertext")
                         ELSE LET d == decrypt_in_place(self.cipher, n.buf, r.buf)
                              IN  IF ~d.ok
                                  THEN Returned([s2 EXCEPT !.phase = "Complete"],
                                                None)
                                  ELSE Returned([s2 EXCEPT !.phase = "Complete"],
                                                Some(d.buffer))
      [] self.phase = "Complete" -> Returned(self, None)

\* variant: nothing after the nonce is taken for an empty message
ChaChaDecryptor_next_emptyOnShort(self) ==
    CASE self.phase = "Plaintext" ->
            LET n == read_exact(self.input_stream, NonceSize)
                s1 == [self EXCEPT !.input_stream = n.stream]
            IN  IF ~n.ok
                THEN Panicked(s1, "failed to read nonce of size 12 bytes")
                ELSE LET r == read_to_end(n.stream)
                         s2 == [self EXCEPT !.input_stream = r.stream]
                     IN  IF ~r.ok THEN Panicked(s2, "failed to read cyphertext")
                         ELSE IF r.buf = <<>>
                         THEN Returned([s2 EXCEPT !.phase = "Complete"],
                                       Some(<<>>))
                         ELSE LET d == decrypt_in_place(self.cipher, n.buf, r.buf)
                              IN  IF ~d.ok
                                  THEN Panicked(s2, "failed to decrypt buffer")
                                  ELSE Returned([s2 EXCEPT !.phase = "Complete"],
                                                Some(d.buffer))
      [] self.phase = "Complete" -> Returned(self, None)

ChaChaDecryptor_next(self) ==
    CASE self.phase = "Plaintext" ->
            LET n == read_exact(self.input_stream, NonceSize)
                s1 == [self EXCEPT !.input_stream = n.stream]
            IN  IF ~n.ok
                THEN Panicked(s1, "failed to read nonce of size 12 bytes")
                ELSE LET r == read_to_end(n.stream)
                         s2 == [self EXCEPT !.input_stream = r.stream]
                     IN  IF ~r.ok THEN Panicked(s2, "failed to read cyphertext")
                         ELSE LET d == decrypt_in_place(self.cipher, n.buf, r.buf)
                              IN  IF ~d.ok
                                  THEN Panicked(s2, "failed to decrypt buffer")
                                  ELSE Returned([s2 EXCEPT !.phase = "Complete"],
                                                Some(d.buffer))
      [] self.phase = "Complete" -> Returned(self, None)

\* ------------------------------------------- key.chunks(BUFFER_SIZE).map(..)
RECURSIVE Chunks(_, _)
Chunks(s, n) ==
    IF s = <<>> THEN <<>>
    ELSE IF Len(s) <= n THEN <<s>>
    ELSE <<Take(s, n)>> \o Chunks(Drop(s, n), n)

ChunksIter(chunks) == [kind |-> "Chunks", rest |-> chunks]

ChunksIter_next(self) ==
    IF self.rest = <<>> THEN Returned(self, None)
    ELSE Returned([self EXCEPT !.rest = Tail(self.rest)], Some(Head(self.rest)))

NoIter == [kind |-> "none"]

\* Iterator::next, dispatched on the producer's type
IterNext(it) ==
    CASE it.kind = "ChaChaEncryptor" -> ChaChaEncryptor_next(it)
      [] it.kind = "ChaChaDecryptor" -> ChaChaDecryptor_next(it)
      [] it.kind = "Chunks" -> ChunksIter_next(it)

\* ------------------------------------------------------------- byte sinks
\* An impl Write: the bytes it holds, the calls it has seen, and the ordinal
\* of the write_all call that meets an I/O error (0: none does).
Writer(failOn) == [buf |-> <<>>, log |-> <<>>, flushes |-> 0, failOn |-> failOn]

WriteCalls(w) ==
    Cardinality({i \in 1..Len(w.log) : w.log[i].op \in {"write", "write_err"}})

\* write_all: an empty buffer never reaches the device; a failing call may
\* have put any proper prefix of the buffer on the device.
WriteFails(w, bytes) == bytes # <<>> /\ w.failOn = WriteCalls(w) + 1

\* variant: every successful write is followed by a flush
write_all_ok_flushing(w, bytes) ==
    [w EXCEPT !.buf = @ \o bytes,
              !.flushes = @ + 1,
              !.log = Append(Append(@, [op |-> "write", bytes |-> bytes]),
                             [op |-> "flush", bytes |-> <<>>])]

write_all_ok(w, bytes) ==
    [w EXCEPT !.buf = @ \o bytes,
              !.log = Append(@, [op |-> "write", bytes |-> bytes])]

write_all_err(w, bytes, n) ==
    [w EXCEPT !.buf = @ \o Take(bytes, n),
              !.log = Append(@, [op |-> "write_err", bytes |-> Take(bytes, n)])]

flush(w) ==
    [w EXCEPT !.flushes = @ + 1,
              !.log = Append(@, [op |-> "flush", bytes |-> <<>>])]

\* ------------------------------------------------------------ build_cipher
\* variant: the key bytes are taken as they come, whatever their number
build_cipher_anyLength(key_bytes) ==
    [ok |-> TRUE, cipher |-> [key |-> key_bytes]]

\* Key::from_slice panics unless the slice has exactly KeySize bytes
build_cipher(key_bytes) ==
    IF Len(key_bytes) = KeySize
    THEN [ok |-> TRUE, cipher |-> [key |-> key_bytes]]
    ELSE [ok |-> FALSE, cipher |-> [key |-> <<>>]]

\* ------------------------------------------------------------ input domains
Keys == {[i \in 1..KeySize |-> 1], [i \in 1..KeySize |-> 2]}
KeyFiles == Keys \cup {[i \in 1..(KeySize - 1) |-> 1]}
Nonces == {[i \in 1..NonceSize |-> 7], [i \in 1..NonceSize |-> 9]}
PlainBytes == {0, 104}
Hello == <<104, 101, 108, 108, 111>>
Plaintexts == UNION {[1..n -> PlainBytes] : n \in 0..MaxLen} \cup {Hello}
Bits == 0..7
\* a decrypt run calls write_all at most once, so the failing call is the
\* first or none
DecryptFailOns == {0, 1}

FlipBit(s, pos, bit) == [s EXCEPT ![pos] = Xor8(@, 2 ^ bit)]
BitFlips(s) == {FlipBit(s, pos, bit) : pos \in 1..Len(s), bit \in Bits}
Prefixes(s) == {Take(s, n) : n \in 0..Len(s)}

\* -------------------------------------------------------------------- state
VARIABLES
    pc,        \* "idle", "sink" (inside write_iter_bytes), "direct" (a caller
               \* pulls next() itself), "done", "panicked"
    iter,      \* the live producer
    writer,    \* the sink handed to write_iter_bytes
    pulls,     \* what each next() on the live producer returned, in order
    panicMsg,  \* the message of the panic that ended the run
    op,        \* the run's inputs as given: command, driver, key, nonce and
               \* the bytes of the source
    saved,     \* the last complete encryption: plaintext, key, nonce, output
    runs       \* runs started so far

vars == <<pc, iter, writer, pulls, panicMsg, op, saved, runs>>

NoOp == [cmd |-> "none", via |-> "none", key |-> <<>>, nonce |-> <<>>,
         input |-> <<>>, bad |-> FALSE]
NoSaved == [valid |-> FALSE, plain |-> <<>>, key |-> <<>>, nonce |-> <<>>,
            out |-> <<>>]

Chunk(i) == pulls[i].v
Emitted == {i \in 1..Len(pulls) : pulls[i].some}
Collected == Flatten([i \in 1..Len(pulls) |-> pulls[i].v])
Exhausted == pulls # <<>> /\ ~pulls[Len(pulls)].some

\* everything an Encryptor over P emits when it is drained
EncryptorOutput(key, nonce, P) ==
    LET r1 == ChaChaEncryptor_next(
                  ChaChaEncryptor_new([key |-> key], Stream(P, FALSE), nonce))
        r2 == ChaChaEncryptor_next(r1.self)
    IN  r1.ret.v \o r2.ret.v

\* the saved output followed by the output of another encryption, same key
Concatenations ==
    {saved.out \o EncryptorOutput(saved.key, nonce, P) :
        nonce \in Nonces, P \in Plaintexts}

DecInputs ==
    {<<>>, <<1, 2, 3>>}
      \cup (IF saved.valid
            THEN {saved.out} \cup BitFlips(saved.out) \cup Prefixes(saved.out)
                    \cup Concatenations
            ELSE {})

\* a run whose key file has the wrong length never opens its stream, and a
\* stream whose read_to_end fails never reaches the tag check: the bytes of
\* such a stream make no difference, its length does
DecInputsFor(key_bytes, bad) ==
    IF Len(key_bytes) = KeySize /\ ~bad THEN DecInputs
    ELSE {<<>>, <<1, 2, 3>>}
           \cup (IF saved.valid THEN Prefixes(saved.out) ELSE {})

Init ==
    /\ pc = "idle"
    /\ iter = NoIter
    /\ writer = Writer(0)
    /\ pulls = <<>>
    /\ panicMsg = NoPanic
    /\ op = NoOp
    /\ saved = NoSaved
    /\ runs = 0

\* main, Commands::Encrypt
MainEncrypt ==
    /\ pc = "idle"
    /\ runs < MaxRuns
    /\ \E key_bytes \in KeyFiles, P \in Plaintexts, bad \in BOOLEAN,
          nonce \in Nonces, failOn \in 0..MaxFailOn :
        LET c == build_cipher(key_bytes)
        IN  /\ op' = [cmd |-> "encrypt", via |-> "sink", key |-> key_bytes, nonce |-> nonce,
                      input |-> P, bad |-> bad]
            /\ writer' = Writer(failOn)
            /\ IF c.ok
               THEN /\ iter' = ChaChaEncryptor_new(c.cipher, Stream(P, bad),
                                                   nonce)
                    /\ pc' = "sink"
                    /\ panicMsg' = NoPanic
               ELSE /\ iter' = NoIter
                    /\ pc' = "panicked"
                    /\ panicMsg' = "key length mismatch"
    /\ pulls' = <<>>
    /\ runs' = runs + 1
    /\ saved' = saved

\* main, Commands::Decrypt
MainDecrypt ==
    /\ pc = "idle"
    /\ runs < MaxRuns
    /\ \E key_bytes \in KeyFiles, bad \in BOOLEAN :
       \E C \in DecInputsFor(key_bytes, bad), failOn \in DecryptFailOns :
        LET c == build_cipher(key_bytes)
        IN  /\ op' = [cmd |-> "decrypt", via |-> "sink", key |-> key_bytes, nonce |-> <<>>,
                      input |-> C, bad |-> bad]
            /\ writer' = Writer(failOn)
            /\ IF c.ok
               THEN /\ iter' = ChaChaDecryptor_new(c.cipher, Stream(C, bad))
                    /\ pc' = "sink"
                    /\ panicMsg' = NoPanic
               ELSE /\ iter' = NoIter
                    /\ pc' = "panicked"
                    /\ panicMsg' = "key length mismatch"
    /\ pulls' = <<>>
    /\ runs' = runs + 1
    /\ saved' = saved

\* main, Commands::KeyGen
MainKeyGen ==
    /\ pc = "idle"
    /\ runs < MaxRuns
    /\ \E key \in Keys, failOn \in 0..MaxFailOn :
        /\ op' = [cmd |-> "keygen", via |-> "sink", key |-> key, nonce |-> <<>>,
                  input |-> <<>>, bad |-> FALSE]
        /\ writer' = Writer(failOn)
        /\ iter' = ChunksIter(Chunks(key, BUFFER_SIZE))
    /\ pc' = "sink"
    /\ panicMsg' = NoPanic
    /\ pulls' = <<>>
    /\ runs' = runs + 1
    /\ saved' = saved

\* a library caller builds an Encryptor over a fresh key and pulls it itself
NewEncryptor ==
    /\ pc = "idle"
    /\ runs < MaxRuns
    /\ \E key \in Keys, P \in Plaintexts, bad \in BOOLEAN, nonce \in Nonces :
        /\ op' = [cmd |-> "encrypt", via |-> "direct", key |-> key, nonce |-> nonce,
                  input |-> P, bad |-> bad]
        /\ iter' = ChaChaEncryptor_new([key |-> key], Stream(P, bad), nonce)
    /\ writer' = Writer(0)
    /\ pc' = "direct"
    /\ panicMsg' = NoPanic
    /\ pulls' = <<>>
    /\ runs' = runs + 1
    /\ saved' = saved

\* a library caller builds a Decryptor and pulls it itself
NewDecryptor ==
    /\ pc = "idle"
    /\ runs < MaxRuns
    /\ \E key \in Keys, bad \in BOOLEAN :
       \E C \in DecInputsFor(key, bad) :
        /\ op' = [cmd |-> "decrypt", via |-> "direct", key |-> key, nonce |-> <<>>,
                  input |-> C, bad |-> bad]
        /\ iter' = ChaChaDecryptor_new([key |-> key], Stream(C, bad))
    /\ writer' = Writer(0)
    /\ pc' = "direct"
    /\ panicMsg' = NoPanic
    /\ pulls' = <<>>
    /\ runs' = runs + 1
    /\ saved' = saved

\* the caller's own call of next()
CallNext ==
    /\ pc = "direct"
    /\ Len(pulls) < MaxPulls
    /\ \E r \in {IterNext(iter)} :
           /\ iter' = r.self
           /\ IF r.panic # NoPanic
              THEN /\ pc' = "panicked"
                   /\ panicMsg' = r.panic
                   /\ pulls' = pulls
              ELSE /\ pulls' = Append(pulls, r.ret)
                   /\ UNCHANGED <<pc, panicMsg>>
    /\ UNCHANGED <<writer, op, saved, runs>>

\* variant: the result of write_all is dropped and the loop goes on
WriteIterBytesChunk_ignoreErr ==
    /\ pc = "sink"
    /\ \E r \in {IterNext(iter)} :
           /\ r.panic # NoPanic \/ r.ret.some
           /\ iter' = r.self
           /\ IF r.panic # NoPanic
              THEN /\ pc' = "panicked"
                   /\ panicMsg' = r.panic
                   /\ UNCHANGED <<pulls, writer>>
              ELSE /\ pulls' = Append(pulls, r.ret)
                   /\ IF WriteFails(writer, r.ret.v)
                      THEN \E n \in 0..(Len(r.ret.v) - 1) :
                                writer' = write_all_err(writer, r.ret.v, n)
                      ELSE writer' = write_all_ok(writer, r.ret.v)
                   /\ UNCHANGED <<pc, panicMsg>>
    /\ UNCHANGED <<op, saved, runs>>

\* write_iter_bytes: one turn of the for loop that gets a chunk
WriteIterBytesChunk ==
    /\ pc = "sink"
    /\ \E r \in {IterNext(iter)} :
           /\ r.panic # NoPanic \/ r.ret.some
           /\ iter' = r.self
           /\ IF r.panic # NoPanic
              THEN /\ pc' = "panicked"
                   /\ panicMsg' = r.panic
                   /\ UNCHANGED <<pulls, writer>>
              ELSE /\ pulls' = Append(pulls, r.ret)
                   /\ IF WriteFails(writer, r.ret.v)
                      THEN /\ \E n \in 0..(Len(r.ret.v) - 1) :
                                writer' = write_all_err(writer, r.ret.v, n)
                           /\ pc' = "panicked"
                           /\ panicMsg' = "couldn't write to stdout"
                      ELSE /\ writer' = write_all_ok(writer, r.ret.v)
                           /\ UNCHANGED <<pc, panicMsg>>
    /\ UNCHANGED <<op, saved, runs>>

\* write_iter_bytes: the producer is exhausted, the loop ends, the sink is
\* flushed and the function returns
WriteIterBytesFlush ==
    /\ pc = "sink"
    /\ \E r \in {IterNext(iter)} :
           /\ r.panic = NoPanic /\ ~r.ret.some
           /\ iter' = r.self
           /\ pulls' = Append(pulls, r.ret)
    /\ writer' = flush(writer)
    /\ pc' = "done"
    /\ UNCHANGED <<panicMsg, op, saved, runs>>

\* the run ends; the output of a complete encryption is kept for a later run
Exit ==
    /\ pc \in {"done", "panicked", "direct"}
    /\ saved' = IF op.cmd = "encrypt" /\ pc = "done"
                THEN [valid |-> TRUE, plain |-> op.input, key |-> op.key,
                      nonce |-> op.nonce, out |-> writer.buf]
                ELSE IF op.cmd = "encrypt" /\ pc = "direct" /\ Exhausted
                THEN [valid |-> TRUE, plain |-> op.input, key |-> op.key,
                      nonce |-> op.nonce, out |-> Collected]
                ELSE saved
    /\ pc' = "idle"
    /\ iter' = NoIter
    /\ writer' = Writer(0)
    /\ pulls' = <<>>
    /\ panicMsg' = NoPanic
    /\ op' = NoOp
    /\ runs' = runs

Next ==
    \/ MainEncrypt
    \/ MainDecrypt
    \/ MainKeyGen
    \/ NewEncryptor
    \/ NewDecryptor
    \/ CallNext
    \/ WriteIterBytesChunk
    \/ WriteIterBytesFlush
    \/ Exit

Spec == Init /\ [][Next]_vars

\* ------------------------------------------------------- claim vocabulary
NonceReadMsg == "failed to read nonce of size 12 bytes"
CipherReadMsg == "failed to read cyphertext"
DecryptMsg == "failed to decrypt buffer"
PlainReadMsg == "failed to read plaintext"
EncryptMsg == "failed to encrypt buffer"

\* the run decrypts, under the encryption key, exactly what the saved
\* encryption wrote, and the source's reads succeed
Authentic ==
    /\ op.cmd = "decrypt"
    /\ saved.valid
    /\ op.input = saved.out
    /\ op.key = saved.key
    /\ ~op.bad

\* b is a with exactly one bit changed, at a byte after the first NonceSize
SingleBitTamper(a, b) ==
    /\ Len(a) = Len(b)
    /\ \E pos \in (NonceSize + 1)..Len(a) :
        /\ \A i \in 1..Len(a) : i # pos => a[i] = b[i]
        /\ Xor8(a[pos], b[pos]) \in {2 ^ k : k \in 0..7}

\* the run's stream passes authenticated decryption under the run's key
AuthOK ==
    /\ ~op.bad
    /\ Len(op.key) = KeySize
    /\ Len(op.input) >= NonceSize
    /\ decrypt_in_place([key |-> op.key], Take(op.input, NonceSize),
                        Drop(op.input, NonceSize)).ok

\* the run rejects its input: no chunk was emitted, nothing was written, and
\* once the producer was pulled the run is over with the given message
Rejected(msg) ==
    /\ pulls = <<>>
    /\ writer.buf = <<>>
    /\ pc \in {"sink", "direct", "panicked"}
    /\ pc = "panicked" => panicMsg = msg

\* C1: round trip: decrypting, under the same key, the whole output of an
\* encryption of P never fails and yields exactly P, through the sink and
\* through a caller that collects the chunks itself
C1_RoundTrip ==
    (Authentic /\ writer.failOn = 0) =>
        /\ pc # "panicked"
        /\ pc = "done" => writer.buf = saved.plain
        /\ (pc = "direct" /\ Exhausted) => Collected = saved.plain

C1_Witness ==
    /\ Authentic
    /\ pc = "done"
    /\ saved.plain = Hello
    /\ writer.buf = Hello

\* C2: when the plaintext source reads without error, the Encryptor's pulls
\* return the nonce, then ciphertext-plus-tag, then end-of-sequence, and no
\* pull fails
C2_EncryptorPulls ==
    (op.cmd = "encrypt" /\ ~op.bad /\ Len(op.key) = KeySize) =>
        /\ panicMsg \notin {PlainReadMsg, EncryptMsg}
        /\ \A i \in 1..Len(pulls) :
            /\ i = 1 => pulls[i] = Some(op.nonce)
            /\ i = 2 => /\ pulls[i].some
                        /\ Len(pulls[i].v) = Len(op.input) + TagSize
                        /\ pulls[i].v = encrypt_in_place([key |-> op.key],
                                            op.nonce, op.input).buffer
            /\ i >= 3 => pulls[i] = None

C2_Witness ==
    /\ op.cmd = "encrypt"
    /\ ~op.bad
    /\ op.input = Hello
    /\ Len(pulls) >= 3
    /\ pulls[1].some /\ pulls[2].some /\ ~pulls[3].some

\* C3: on an authentic stream the Decryptor's pulls return the plaintext and
\* then end-of-sequence; the first pull uses up the source, and the nonce is
\* not among the chunks
C3_DecryptorPulls ==
    Authentic =>
        /\ panicMsg \notin {NonceReadMsg, CipherReadMsg, DecryptMsg}
        /\ \A i \in 1..Len(pulls) :
            /\ i = 1 => pulls[i] = Some(saved.plain)
            /\ i >= 2 => pulls[i] = None
            /\ pulls[i] # Some(saved.nonce)
        /\ pulls # <<>> => iter.input_stream.data = <<>>

C3_Witness ==
    /\ Authentic
    /\ saved.plain = Hello
    /\ Len(pulls) >= 2
    /\ pulls[1].some /\ ~pulls[2].some

\* C4: a stream that differs from an encryption's output in one bit after
\* the nonce is rejected under the same key as a decryption failure
C4_TamperDetected ==
    (/\ op.cmd = "decrypt"
     /\ saved.valid
     /\ op.key = saved.key
     /\ ~op.bad
     /\ SingleBitTamper(saved.out, op.input)) => Rejected(DecryptMsg)

C4_Witness ==
    /\ op.cmd = "decrypt"
    /\ saved.valid
    /\ saved.plain = Hello
    /\ op.key = saved.key
    /\ ~op.bad
    /\ SingleBitTamper(saved.out, op.input)
    /\ pc = "panicked"
    /\ panicMsg = DecryptMsg

\* C5: an encryption's output is rejected as a decryption failure under any
\* other key of valid size
C5_WrongKeyRejected ==
    (/\ op.cmd = "decrypt"
     /\ saved.valid
     /\ op.input = saved.out
     /\ Len(op.key) = KeySize
     /\ op.key # saved.key
     /\ ~op.bad) => Rejected(DecryptMsg)

C5_Witness ==
    /\ op.cmd = "decrypt"
    /\ saved.valid
    /\ op.input = saved.out
    /\ op.key \in Keys
    /\ op.key # saved.key
    /\ ~op.bad
    /\ pc = "panicked"
    /\ panicMsg = DecryptMsg

\* C6: in a decrypt run through the sink the output holds bytes only if the
\* whole input passed authenticated decryption, and then only bytes of that
\* plaintext; a run that fails in the producer has written nothing
C6_NoUnauthenticatedOutput ==
    (op.cmd = "decrypt" /\ op.via = "sink") =>
        /\ writer.buf # <<>> =>
              /\ AuthOK
              /\ \E n \in 0..Len(op.input) :
                    writer.buf = Take(decrypt_in_place([key |-> op.key],
                                          Take(op.input, NonceSize),
                                          Drop(op.input, NonceSize)).buffer, n)
        /\ ~AuthOK => (pc # "done" /\ Emitted = {})
        /\ panicMsg \in {NonceReadMsg, CipherReadMsg, DecryptMsg} =>
              (writer.buf = <<>> /\ writer.flushes = 0)

C6_Witness ==
    /\ op.cmd = "decrypt"
    /\ op.via = "sink"
    /\ Len(op.input) > NonceSize + TagSize
    /\ pc = "panicked"
    /\ panicMsg = DecryptMsg
    /\ writer.buf = <<>>

\* C7: a stream of fewer than NonceSize bytes makes the decrypt run fail on
\* the nonce read with its own message; the run never completes and never
\* emits or writes anything
C7_ShortStreamFails ==
    (/\ op.cmd = "decrypt"
     /\ Len(op.key) = KeySize
     /\ Len(op.input) < NonceSize) =>
        /\ Rejected(NonceReadMsg)
        /\ writer.flushes = 0

C7_Witness ==
    /\ op.cmd = "decrypt"
    /\ op.input # <<>>
    /\ Len(op.input) < NonceSize
    /\ pc = "panicked"
    /\ panicMsg = NonceReadMsg

\* C8: a pull of a producer that has signalled end-of-sequence returns
\* end-of-sequence again and changes nothing: not the phase (Complete), not
\* the source, not the sink, and it does not fail
C8_ExhaustedStaysExhausted ==
    [][(Exhausted /\ Len(pulls') > Len(pulls)) =>
          /\ pulls' = Append(pulls, None)
          /\ iter.phase = "Complete"
          /\ iter' = iter
          /\ pc' = pc
          /\ writer' = writer]_vars

C8_Witness ==
    /\ pc = "direct"
    /\ Len(pulls) >= 3
    /\ ~pulls[Len(pulls)].some
    /\ ~pulls[Len(pulls) - 1].some
    /\ ~pulls[Len(pulls) - 2].some

\* C9: a completed encrypt run has written the 12 nonce bytes followed by
\* the ciphertext-plus-tag of |P| + 16 bytes and nothing else: |P| + 28
\* bytes, 33 for "hello"
C9_WireFormat ==
    (op.cmd = "encrypt" /\ pc = "done") =>
        /\ Len(writer.buf) = Len(op.input) + 28
        /\ Take(writer.buf, 12) = op.nonce
        /\ Len(Drop(writer.buf, 12)) = Len(op.input) + 16
        /\ Drop(writer.buf, 12) =
              encrypt_in_place([key |-> op.key], op.nonce, op.input).buffer
        /\ op.input = Hello => Len(writer.buf) = 33

C9_Witness ==
    /\ op.cmd = "encrypt"
    /\ pc = "done"
    /\ op.input = Hello
    /\ Len(writer.buf) = 33

\* C10: while no write fails, write_iter_bytes has written every chunk it
\* got, whole and in order, and has not flushed; when it returns it has
\* flushed exactly once, after the last write
C10_WritesThenOneFlush ==
    (op.via = "sink" /\ writer.failOn = 0) =>
        /\ writer.buf = Collected
        /\ pc \in {"sink", "panicked"} =>
              /\ writer.flushes = 0
              /\ Len(writer.log) = Len(pulls)
        /\ pc = "done" =>
              /\ writer.flushes = 1
              /\ Len(writer.log) = Len(pulls)
              /\ writer.log[Len(writer.log)] = [op |-> "flush", bytes |-> <<>>]
        /\ \A i \in 1..Len(writer.log) :
              pulls[i].some =>
                  writer.log[i] = [op |-> "write", bytes |-> pulls[i].v]

C10_Witness ==
    /\ op.via = "sink"
    /\ op.cmd = "encrypt"
    /\ writer.failOn = 0
    /\ pc = "done"
    /\ Len(writer.log) = 3
    /\ writer.flushes = 1

WriteMsg == "couldn't write to stdout"

\* C11: a failed write is the last thing write_iter_bytes does: the run is
\* over with the write message, no chunk was pulled after the failing one,
\* nothing was flushed, and the sink still holds every earlier chunk whole,
\* followed by at most a part of the failing one
C11_WriteFailureAborts ==
    \A k \in 1..Len(writer.log) :
        writer.log[k].op = "write_err" =>
            /\ k = Len(writer.log)
            /\ Len(pulls) = k
            /\ pc = "panicked"
            /\ panicMsg = WriteMsg
            /\ writer.flushes = 0
            /\ \A i \in 1..(k - 1) :
                  writer.log[i] = [op |-> "write", bytes |-> pulls[i].v]
            /\ \E n \in 0..(Len(pulls[k].v) - 1) :
                  writer.buf = Flatten([i \in 1..(k - 1) |-> pulls[i].v])
                                  \o Take(pulls[k].v, n)

C11_Witness ==
    /\ op.cmd = "encrypt"
    /\ Len(writer.log) = 2
    /\ writer.log[2].op = "write_err"
    /\ pc = "panicked"
    /\ Len(writer.buf) > NonceSize
    /\ Take(writer.buf, NonceSize) = op.nonce

\* C12: when an encrypt run through the sink fails in the producer (the read
\* of the plaintext or the encryption fails), no byte has been written to
\* the output
C12_EncryptFailureNoOutput ==
    (/\ op.cmd = "encrypt"
     /\ op.via = "sink"
     /\ panicMsg \in {PlainReadMsg, EncryptMsg}) => writer.buf = <<>>

KeyMsg == "key length mismatch"

\* C14: an encrypt or decrypt command whose key file does not hold exactly
\* KeySize bytes is over at build_cipher: no producer exists, nothing was
\* pulled from standard input and standard output saw no call
C14_BadKeyFailsFirst ==
    (op.cmd \in {"encrypt", "decrypt"} /\ Len(op.key) # KeySize) =>
        /\ pc = "panicked"
        /\ panicMsg = KeyMsg
        /\ iter = NoIter
        /\ pulls = <<>>
        /\ writer.log = <<>>
        /\ writer.buf = <<>>

C14_Witness ==
    /\ op.cmd = "decrypt"
    /\ Len(op.key) = KeySize - 1
    /\ op.input # <<>>
    /\ pc = "panicked"
    /\ panicMsg = KeyMsg

\* the first pull of a Decryptor built over stream C under key
FirstPull(key, C) ==
    ChaChaDecryptor_next(ChaChaDecryptor_new([key |-> key], Stream(C, FALSE)))

\* the decrypt run failed inside the Decryptor, on a source without I/O error
DecryptFailed ==
    /\ op.cmd = "decrypt"
    /\ ~op.bad
    /\ pc = "panicked"
    /\ panicMsg \in {NonceReadMsg, DecryptMsg}

\* C15 as claimed: a failed decrypt run shows the same outcome (message and
\* output) as a decrypt run that fails for another reason: on malformed
\* input, on the same stream cut after the nonce, or under another key
C15_NoFailureOracle ==
    DecryptFailed =>
        \A key2 \in Keys :
            \A C2 \in {<<1, 2, 3>>, op.input} \cup
                      (IF Len(op.input) >= NonceSize
                       THEN {Take(op.input, NonceSize)} ELSE {}) :
                FirstPull(key2, C2).panic # NoPanic =>
                    <<FirstPull(key2, C2).panic, <<>>>> = <<panicMsg, writer.buf>>

\* C15 as amended: the failures of decryption proper are alike.  A decrypt
\* run over at least NonceSize readable bytes that fails in the Decryptor
\* shows the decryption message and no output, and so does a run on the same
\* stream cut after the nonce or under another key
C15_AuthFailuresAlike ==
    (DecryptFailed /\ Len(op.input) >= NonceSize) =>
        /\ <<panicMsg, writer.buf, pulls>> = <<DecryptMsg, <<>>, <<>>>>
        /\ \A key2 \in Keys :
            \A C2 \in {op.input, Take(op.input, NonceSize)} :
                FirstPull(key2, C2).panic \in {NoPanic, DecryptMsg}

C15_Witness ==
    /\ DecryptFailed
    /\ Len(op.input) = NonceSize
    /\ panicMsg = DecryptMsg
    /\ writer.buf = <<>>

\* C16: a producer starts in its first phase; every step leaves its phase
\* where it is or moves it one phase forward (Nonce, Ciphertext, Complete
\* for the Encryptor; Plaintext, Complete for the Decryptor); a pull that
\* returns outside Complete moves it exactly one phase forward, a pull that
\* fails leaves it, and Complete is never left
C16_PhaseMonotone ==
    [][/\ (iter.kind = "none" /\ iter'.kind = "ChaChaEncryptor") =>
              iter'.phase = "Nonce"
       /\ (iter.kind = "none" /\ iter'.kind = "ChaChaDecryptor") =>
              iter'.phase = "Plaintext"
       /\ (iter.kind = "ChaChaEncryptor" /\ iter'.kind = "ChaChaEncryptor") =>
              /\ <<iter.phase, iter'.phase>> \in
                    {<<"Nonce", "Nonce">>, <<"Nonce", "Ciphertext">>,
                     <<"Ciphertext", "Ciphertext">>,
                     <<"Ciphertext", "Complete">>, <<"Complete", "Complete">>}
              /\ (Len(pulls') > Len(pulls) /\ iter.phase # "Complete") =>
                    iter'.phase # iter.phase
              /\ Len(pulls') = Len(pulls) => iter'.phase = iter.phase
       /\ (iter.kind = "ChaChaDecryptor" /\ iter'.kind = "ChaChaDecryptor") =>
              /\ <<iter.phase, iter'.phase>> \in
                    {<<"Plaintext", "Plaintext">>, <<"Plaintext", "Complete">>,
                     <<"Complete", "Complete">>}
              /\ (Len(pulls') > Len(pulls) /\ iter.phase # "Complete") =>
                    iter'.phase # iter.phase
              /\ Len(pulls') = Len(pulls) => iter'.phase = iter.phase]_vars

C16_Witness ==
    /\ iter.kind = "ChaChaEncryptor"
    /\ iter.phase = "Complete"
    /\ op.via = "sink"
    /\ Len(pulls) = 2
    /\ pulls[2].some

\* C17: the Encryptor holds the nonce it was built with through every pull;
\* chunk 1 is that nonce, chunk 2 opens under chunk 1 as nonce (and under no
\* other nonce) to the plaintext; a saved output starts with its nonce, so
\* the first NonceSize bytes a Decryptor reads from it are the nonce that
\* opens the rest, and an authentic run emits exactly that plaintext
C17_NonceFixed ==
    /\ iter.kind = "ChaChaEncryptor" =>
          /\ iter.nonce = op.nonce
          /\ Len(pulls) >= 1 => pulls[1].v = op.nonce
          /\ Len(pulls) >= 2 =>
                /\ decrypt_in_place(iter.cipher, pulls[1].v, pulls[2].v)
                      = [ok |-> TRUE, buffer |-> op.input]
                /\ \A n \in Nonces \ {pulls[1].v} :
                      ~decrypt_in_place(iter.cipher, n, pulls[2].v).ok
    /\ (saved.valid /\ pc = "idle") =>
          /\ Take(saved.out, NonceSize) = saved.nonce
          /\ decrypt_in_place([key |-> saved.key], Take(saved.out, NonceSize),
                              Drop(saved.out, NonceSize))
                = [ok |-> TRUE, buffer |-> saved.plain]
    /\ (Authentic /\ pulls # <<>>) => pulls[1] = Some(saved.plain)

C17_Witness ==
    /\ iter.kind = "ChaChaEncryptor"
    /\ op.via = "direct"
    /\ op.input = Hello
    /\ Len(pulls) = 2
    /\ pulls[1].v = iter.nonce
    /\ pulls[2].some

\* C18: a pull in phase Nonce changes the phase and nothing else of the
\* Encryptor: source, cipher and nonce stay; in a run through the sink the
\* nonce is in the sink after that step while the source is still unread;
\* the source is still whole when the pull in phase Ciphertext starts, and
\* used up when it ends
C18_NoncePullFrame ==
    [][(iter.kind = "ChaChaEncryptor" /\ iter'.kind = "ChaChaEncryptor") =>
          /\ iter.phase = "Nonce" =>
                /\ iter.input_stream = Stream(op.input, op.bad)
                /\ iter' = [iter EXCEPT !.phase = "Ciphertext"]
                /\ pulls' = <<Some(iter.nonce)>>
                /\ (op.via = "sink" /\ writer.failOn # 1) =>
                      /\ writer'.buf = iter.nonce
                      /\ iter'.input_stream.data = op.input
          /\ iter.phase = "Ciphertext" =>
                /\ iter.input_stream = Stream(op.input, op.bad)
                /\ iter'.input_stream.data = <<>>]_vars

C18_Witness ==
    /\ iter.kind = "ChaChaEncryptor"
    /\ iter.phase = "Ciphertext"
    /\ op.via = "sink"
    /\ writer.buf = op.nonce
    /\ iter.input_stream.data = Hello

\* the run's stream is the saved output followed by one more Encryptor output
\* under the same key
IsConcatenation ==
    /\ saved.valid
    /\ Len(op.input) >= 2 * (NonceSize + TagSize)
    /\ Len(op.input) > Len(saved.out)
    /\ Take(op.input, Len(saved.out)) = saved.out
    /\ \E nonce \in Nonces, P \in Plaintexts :
          Drop(op.input, Len(saved.out)) = EncryptorOutput(saved.key, nonce, P)

\* C19: a stream made of two Encryptor outputs under one key is rejected as
\* a decryption failure under that key, with no chunk emitted and the source
\* read to its end by the one pull
C19_ConcatenationRejected ==
    (/\ op.cmd = "decrypt"
     /\ op.key = saved.key
     /\ ~op.bad
     /\ IsConcatenation) =>
        /\ Rejected(DecryptMsg)
        /\ pc = "panicked" => iter.input_stream.data = <<>>

C19_Witness ==
    /\ op.cmd = "decrypt"
    /\ op.key = saved.key
    /\ ~op.bad
    /\ IsConcatenation
    /\ saved.plain = Hello
    /\ Len(op.input) = 2 * Len(saved.out)
    /\ pc = "panicked"
    /\ panicMsg = DecryptMsg
    /\ iter.input_stream.data = <<>>

\* C20: a readable stream of at least NonceSize and fewer than NonceSize +
\* TagSize bytes gets past the nonce read and is rejected as a decryption
\* failure; no chunk, in particular no empty one, is emitted
C20_MissingTagRejected ==
    (/\ op.cmd = "decrypt"
     /\ Len(op.key) = KeySize
     /\ ~op.bad
     /\ Len(op.input) >= NonceSize
     /\ Len(op.input) < NonceSize + TagSize) =>
        /\ Rejected(DecryptMsg)
        /\ panicMsg # NonceReadMsg
        /\ \A i \in 1..Len(pulls) : pulls[i] # Some(<<>>)

C20_Witness ==
    /\ op.cmd = "decrypt"
    /\ ~op.bad
    /\ Len(op.input) = NonceSize + TagSize - 1
    /\ pc = "panicked"
    /\ panicMsg = DecryptMsg
    /\ pulls = <<>>

====
